---- MODULE Spec2Model ----
(***************************************************************************)
(* Stadium-Attendance-Dashboard: scripts/fetch_data.py (the TidyTuesday    *)
(* downloader) and scripts/build_dashboard.py (DuckDB load, the SQL        *)
(* aggregations, the Plotly figures and the HTML page).                    *)
(*                                                                         *)
(* Conventions.  Files are records with an `exists` flag.  A calendar date *)
(* of 2023 is its day of the year (1..365).  SQL NULL is the value NULL.   *)
(* A DOUBLE produced by AVG or by a division is the exact fraction         *)
(* [num, den] (NULL when SQL yields NULL); fractions are compared with     *)
(* RatEq.  Where SQL leaves the order of tied rows open, every order is a  *)
(* possible outcome.                                                       *)
(***************************************************************************)
EXTENDS Integers, Sequences, FiniteSets, TLC

VARIABLES
    \* ---- scripts/fetch_data.py ----
    override,   \* TT_DATE_OVERRIDE: 0 when unset or empty, else a date
    remote,     \* what the server answers to GET: [att, sched] status codes
    fpc,        \* position of main(): "start", "probe", "download", "exited"
    dates,      \* the candidate list built at line 58
    probed,     \* the HEAD requests made so far: [date, ok, raised]
    chosen,     \* 0 for None, else the chosen date
    files,      \* names of the files written under data/raw
    fexit,      \* process exit status (-1 while running)
    \* ---- scripts/build_dashboard.py ----
    csv,        \* data/raw/attendance.csv
    db,         \* data/stadium.duckdb
    html,       \* html/dashboard.html
    pc,         \* position of build_dashboard()
    team,       \* the --team argument of the current run
    pivot_df,   \* result of the inline running-average query
    fig1,       \* the heat-map figure
    df_yr,      \* result of annual(con, team)
    exitCode,   \* process exit status of the last run (-1 before/while)
    prev,       \* the results of the previous completed run
    \* ---- direct calls of the query functions ----
    table,      \* the attendance table the function is called on
    qres        \* the call made and what it returned

fvars == <<override, remote, fpc, dates, probed, chosen, files, fexit>>
bvars == <<csv, db, html, pc, team, pivot_df, fig1, df_yr, exitCode, prev>>
qvars == <<table, qres>>
vars  == <<fvars, bvars, qvars>>

(***************************************************************************)
(* Bounds of the model.                                                    *)
(***************************************************************************)
MaxRows    == 3      \* rows of a table handed to a query function
MaxCsvRows == 2      \* rows of the CSV of a build_dashboard run

NULL == -1

(***************************************************************************)
(* fetch_data.py                                                           *)
(***************************************************************************)
Jan1Weekday == 6        \* dt.date(2023, 1, 1).weekday(): Mon=0 .. Sun=6
DaysIn2023  == 365
MANDATORY   == "attendance.csv"
OPTIONAL    == "schedule_2019_2023.csv"

NoResponse   == 0       \* the request raised instead of returning a status
HeadStatuses == {200, 404, 500, NoResponse}
GetStatuses  == {200, 404, 500}
OverrideEnv  == {0, 80, 81}   \* unset, 2023-03-21 (a Tuesday), 2023-03-22

Reverse(s) == [i \in 1..Len(s) |-> s[Len(s) + 1 - i]]

RECURSIVE WeeklyFrom(_)
WeeklyFrom(d) == IF d > DaysIn2023 THEN <<>> ELSE <<d>> \o WeeklyFrom(d + 7)

tuesdays_2023_oldest_first == WeeklyFrom(1 + ((1 - Jan1Weekday) % 7))

tuesdays_2023 == Reverse(WeeklyFrom(1 + ((1 - Jan1Weekday) % 7)))

FetchInit ==
    /\ override \in OverrideEnv
    /\ remote \in [att : GetStatuses, sched : GetStatuses]
    /\ fpc = "start"
    /\ dates = <<>>
    /\ probed = <<>>
    /\ chosen = 0
    /\ files = {}
    /\ fexit = -1

\* main, lines 57-60
FetchStart ==
    /\ fpc = "start"
    /\ dates' = IF override # 0 THEN <<override>> ELSE tuesdays_2023
    /\ chosen' = 0
    /\ fpc' = "probe"
    /\ UNCHANGED <<override, remote, probed, files, fexit, bvars, qvars>>

\* main, lines 61-65: one iteration of the for loop.  A HEAD that raises
\* leaves main through the handler of lines 79-81.
Probe ==
    /\ fpc = "probe"
    /\ Len(probed) < Len(dates)
    /\ \E status \in HeadStatuses :
          LET date == dates[Len(probed) + 1] IN
          /\ probed' = Append(probed, [date |-> date, ok |-> (status = 200),
                                       raised |-> (status = NoResponse)])
          /\ IF status = NoResponse
                THEN /\ fpc' = "exited"
                     /\ fexit' = 1
                     /\ chosen' = chosen
                ELSE IF status = 200
                THEN /\ chosen' = date
                     /\ fpc' = "download"
                     /\ fexit' = fexit
                ELSE /\ chosen' = chosen
                     /\ fpc' = "probe"
                     /\ fexit' = fexit
    /\ UNCHANGED <<override, remote, dates, files, bvars, qvars>>

\* main, lines 66-67: the loop ran out of dates
NoneFound ==
    /\ fpc = "probe"
    /\ Len(probed) = Len(dates)
    /\ chosen = 0
    /\ fpc' = "exited"
    /\ fexit' = 1
    /\ UNCHANGED <<override, remote, dates, probed, chosen, files, bvars, qvars>>

\* download, lines 46-53, as called at line 71.  Result: the files on disk
\* and how the call ends.  On a 200 the body is written (line 51) and then
\* line 52 evaluates dest.relative_to(Path.cwd()) with dest the relative
\* path data/raw/<name> and Path.cwd() absolute, which raises ValueError.
download(status, name, onDisk) ==
    IF status = 404 THEN [files |-> onDisk, ends |-> "False"]
    ELSE IF status # 200 THEN [files |-> onDisk, ends |-> "HTTPError"]
    ELSE [files |-> onDisk \cup {name}, ends |-> "ValueError"]

\* main, lines 69-72, and the handler of lines 77-81.  A False return exits
\* at line 72; an exception exits at line 81; line 74 is reached only after
\* a True return.
DownloadMandatory ==
    /\ fpc = "download"
    /\ LET r == download(remote.att, MANDATORY, files) IN
          IF r.ends = "True"
             THEN LET o == download(remote.sched, OPTIONAL, r.files) IN
                  /\ files' = o.files
                  /\ fpc' = "exited"
                  /\ fexit' = IF o.ends \in {"True", "False"} THEN 0 ELSE 1
             ELSE /\ files' = r.files
                  /\ fpc' = "exited"
                  /\ fexit' = 1
    /\ UNCHANGED <<override, remote, dates, probed, chosen, bvars, qvars>>

FetchNext == FetchStart \/ Probe \/ NoneFound \/ DownloadMandatory

(***************************************************************************)
(* build_dashboard.py: the data                                            *)
(***************************************************************************)
Teams     == {"A", "B"}          \* team_name values occurring in the data
TeamArgs  == {"A", "Z"}          \* --team arguments; "Z" matches no row
Years     == {2000, 2001}
Weeks     == {1, 2}
Vals      == {NULL, 500, 1500}   \* weekly_attendance, NULL on a bye week

\* The columns of the CSV (and so of the table loaded from it):
\*   "raw"    team_name, year, week (BIGINT), weekly_attendance: the columns
\*            ensure_view, annual and the inline query read;
\*   "view"   those and game_date, attendance as attendance_week derives
\*            them (ensure_view, lines 43-49);
\*   "dated"  as "view", with week a DATE (what STRFTIME(week, ..) needs).
Schemas == {"raw", "view", "dated"}
CsvSchemas == {"raw"}    \* the header of the CSV of a build_dashboard run
HasViewCols(schema) == schema \in {"view", "dated"}
WeekIsDate(schema)  == schema = "dated"

Row == [team_name : Teams, year : Years, week : Weeks, weekly_attendance : Vals]

\* ensure_view, line 48: the Monday of week `week` of `year` (a day count)
game_date(r) == (r.year - 2000) * 371 + r.week * 7
\* ensure_view, line 49
attendance(r) == r.weekly_attendance

SeqsUpTo(S, lo, hi) == UNION {[1..n -> S] : n \in lo..hi}

\* A relation is a bag of rows, and no statement below depends on the order
\* in which the rows were inserted: the bags of lo..hi rows, each as the
\* sequence of its rows in the order of RowKey.
RowKey(r) == (IF r.team_name = "A" THEN 0 ELSE 10000000)
             + (r.year - 2000) * 1000000 + r.week * 10000
             + (r.weekly_attendance + 1)
RowBags(lo, hi) ==
    {s \in SeqsUpTo(Row, lo, hi) :
        \A i \in 1..(Len(s) - 1) : RowKey(s[i]) <= RowKey(s[i + 1])}

NullD == [num |-> 0, den |-> 0]                 \* a NULL DOUBLE
RatEq(a, b) == /\ (a.den = 0) = (b.den = 0)
               /\ a.num * b.den = b.num * a.den

RECURSIVE SumSeq(_)
SumSeq(s) == IF s = <<>> THEN 0 ELSE Head(s) + SumSeq(Tail(s))

NonNull(s) == SelectSeq(s, LAMBDA v : v # NULL)

\* SQL AVG: NULLs are skipped; NULL when nothing is left
AVG(s) == IF NonNull(s) = <<>> THEN NullD
          ELSE [num |-> SumSeq(NonNull(s)), den |-> Len(NonNull(s))]

\* SQL SUM: NULLs are skipped; NULL when nothing is left
SUM(s) == IF NonNull(s) = <<>> THEN NULL ELSE SumSeq(NonNull(s))

RECURSIVE SortSet(_)
SortSet(S) == IF S = {} THEN <<>>
              ELSE LET m == CHOOSE x \in S : \A y \in S : x <= y
                   IN <<m>> \o SortSet(S \ {m})

Perms(n) == {p \in [1..n -> 1..n] : \A i, j \in 1..n : i # j => p[i] # p[j]}

\* the orders in which a sort on key (an integer per row) can leave rows
SortOrders(rows, key(_)) ==
    {p \in Perms(Len(rows)) :
        \A i, j \in 1..Len(rows) : i < j => key(rows[p[i]]) <= key(rows[p[j]])}

Max(a, b) == IF a >= b THEN a ELSE b

BinderError == [error |-> TRUE, rows |-> <<>>]
Returns(rows) == [error |-> FALSE, rows |-> rows]

(***************************************************************************)
(* build_dashboard.py: the queries.  Each yields the set of results the    *)
(* statement can return on the table.                                      *)
(***************************************************************************)
Filtered(tbl, t) == SelectSeq(tbl.rows, LAMBDA r : r.team_name = t)

\* rolling, lines 58-77.  game_date and attendance are read FROM attendance,
\* the table; a table without these columns fails to bind.  rn numbers the
\* team's rows in one order of game_date (line 64), the frame is the row
\* and the two before it in rn order (lines 70-73), and the final ORDER BY
\* game_date (line 75) sorts the result again.
RollingRows(base, p, q) ==
    LET n  == Len(base)
        o  == [k \in 1..n |->
                 [game_date |-> game_date(base[p[k]]),
                  roll_att  |-> AVG([i \in 1..(k - Max(1, k - 2) + 1) |->
                                       attendance(base[p[Max(1, k - 2) + i - 1]])])]]
    IN [j \in 1..n |-> o[q[j]]]

rolling(tbl, t) ==
    IF ~HasViewCols(tbl.schema) THEN {BinderError}
    ELSE LET base == Filtered(tbl, t)
         IN UNION {{Returns(RollingRows(base, p, q)) :
                       q \in SortOrders([k \in 1..Len(base) |-> base[p[k]]], game_date)} :
                   p \in SortOrders(base, game_date)}

\* STRFTIME(d, '%w'): the day of the week of a date, Sunday = 0
strftime_w(d) == (d - 1 + (Jan1Weekday + 1)) % 7

\* weekday, lines 80-91.  STRFTIME needs a DATE or TIMESTAMP argument, and
\* attendance is read from the table.
weekday(tbl, t) ==
    IF ~(HasViewCols(tbl.schema) /\ WeekIsDate(tbl.schema)) THEN {BinderError}
    ELSE LET base   == Filtered(tbl, t)
             keyOf(r) == r.year * 10 + strftime_w(r.week)
             keys   == SortSet({keyOf(base[i]) : i \in 1..Len(base)})
         IN {Returns([k \in 1..Len(keys) |->
                [weekday |-> keys[k] % 10,
                 year    |-> keys[k] \div 10,
                 avg_att |-> AVG([i \in 1..Len(SelectSeq(base, LAMBDA r : keyOf(r) = keys[k])) |->
                                   attendance(SelectSeq(base, LAMBDA r : keyOf(r) = keys[k])[i])])]])}

\* annual with AVG in the place of SUM
annual_avg(tbl, t) ==
    LET base  == Filtered(tbl, t)
        years == SortSet({base[i].year : i \in 1..Len(base)})
        mean(y) == AVG([i \in 1..Len(SelectSeq(base, LAMBDA r : r.year = y)) |->
                          SelectSeq(base, LAMBDA r : r.year = y)[i].weekly_attendance])
    IN {Returns([k \in 1..Len(years) |->
           [year |-> years[k],
            total_att_k |-> [num |-> mean(years[k]).num,
                             den |-> mean(years[k]).den * 1000]]])}

\* annual, lines 94-104
annual(tbl, t) ==
    LET base  == Filtered(tbl, t)
        years == SortSet({base[i].year : i \in 1..Len(base)})
        total(y) == SUM([i \in 1..Len(SelectSeq(base, LAMBDA r : r.year = y)) |->
                           SelectSeq(base, LAMBDA r : r.year = y)[i].weekly_attendance])
    IN {Returns([k \in 1..Len(years) |->
           [year |-> years[k],
            total_att_k |-> IF total(years[k]) = NULL THEN NullD
                            ELSE [num |-> total(years[k]), den |-> 1000]]])}

\* the inline query of build_dashboard, lines 190-201, over all rows of the
\* CSV: a running average per year in one order of week (p), the result
\* sorted by year, week (q).
YearWeek(r) == r.year * 100 + r.week

PivotRows(rows, p, q) ==
    LET n == Len(rows)
        part(k) == SelectSeq([i \in 1..k |-> rows[p[i]]],
                             LAMBDA r : r.year = rows[p[k]].year)
        o == [k \in 1..n |->
                [year |-> rows[p[k]].year,
                 week |-> rows[p[k]].week,
                 running_avg_att |->
                    AVG([i \in 1..Len(part(k)) |-> part(k)[i].weekly_attendance])]]
    IN [j \in 1..n |-> o[q[j]]]

pivot(rows) ==
    UNION {{PivotRows(rows, p, q) :
               q \in SortOrders([k \in 1..Len(rows) |-> rows[p[k]]], YearWeek)} :
           p \in SortOrders(rows, YearWeek)}

(***************************************************************************)
(* build_dashboard.py: one run, step by step                               *)
(***************************************************************************)
NoCsv    == [exists |-> FALSE, schema |-> "raw", rows |-> <<>>]
NoTable  == [schema |-> "raw", rows |-> <<>>]
NoDb     == [file |-> FALSE, hasTable |-> FALSE, table |-> NoTable]
EmptyDb  == [file |-> TRUE, hasTable |-> FALSE, table |-> NoTable]
NoFig1   == [x |-> <<>>, y |-> <<>>, z |-> <<>>, tickvals |-> <<>>, ticktext |-> <<>>]
NoHtml   == [exists |-> FALSE, title |-> "", h1 |-> "", charts |-> <<>>]
OldHtml  == [exists |-> TRUE, title |-> "old", h1 |-> "old", charts |-> <<>>]
NoRun    == [ok |-> FALSE, team |-> "", stored |-> FALSE,
             pivot_df |-> <<>>, df_yr |-> <<>>]

\* read_csv_auto, lines 28-30 and 134-136: the table holds the rows of the
\* file under the columns of its header
read_csv_auto(f) == [schema |-> f.schema, rows |-> f.rows]

BuildInit ==
    /\ csv \in {NoCsv} \cup [exists : {TRUE}, schema : CsvSchemas,
                              rows : RowBags(1, MaxCsvRows)]
    /\ db \in {NoDb, EmptyDb}
    /\ html \in {NoHtml, OldHtml}
    /\ pc = "idle"
    /\ team = ""
    /\ pivot_df = <<>>
    /\ fig1 = NoFig1
    /\ df_yr = <<>>
    /\ exitCode = -1
    /\ prev = NoRun

Fail == /\ pc' = "failed"
        /\ exitCode' = 1

\* the check of line 144 made after the database was opened for writing
BuildStart_CheckLate(t) ==
    /\ pc \in {"idle", "done", "failed"}
    /\ team' = t
    /\ prev' = [ok |-> pc = "done", team |-> team, stored |-> db.hasTable,
                pivot_df |-> pivot_df, df_yr |-> df_yr]
    /\ IF ~csv.exists
          THEN /\ Fail
               /\ db' = [db EXCEPT !.file = TRUE]
          ELSE /\ pc' = "init_db"
               /\ exitCode' = -1
               /\ db' = db
    /\ UNCHANGED <<csv, html, pivot_df, fig1, df_yr, fvars, qvars>>

\* build_dashboard, lines 142-145: a new process is started with --team t
BuildStart(t) ==
    /\ pc \in {"idle", "done", "failed"}
    /\ team' = t
    /\ prev' = [ok |-> pc = "done", team |-> team, stored |-> db.hasTable,
                pivot_df |-> pivot_df, df_yr |-> df_yr]
    /\ IF ~csv.exists
          THEN Fail
          ELSE /\ pc' = "init_db"
               /\ exitCode' = -1
    /\ UNCHANGED <<csv, db, html, pivot_df, fig1, df_yr, fvars, qvars>>

\* init_db, lines 24-32
init_db(d, f) == [file |-> TRUE, hasTable |-> TRUE, table |-> read_csv_auto(f)]

\* build_dashboard, lines 147-148
InitDbStep ==
    /\ pc = "init_db"
    /\ db' = IF ~db.file THEN init_db(db, csv) ELSE db
    /\ pc' = "connect"
    /\ UNCHANGED <<csv, html, team, pivot_df, fig1, df_yr, exitCode, prev, fvars, qvars>>

\* ensure_table, lines 126-138, on the connection of line 150, which is
\* opened read_only=True: the CREATE of lines 133-137 is refused.
ensure_table(d, f, readOnly) ==
    IF d.hasTable THEN [db |-> d, raised |-> FALSE]
    ELSE IF readOnly THEN [db |-> d, raised |-> TRUE]
    ELSE [db |-> [d EXCEPT !.hasTable = TRUE, !.table = read_csv_auto(f)],
          raised |-> FALSE]

\* build_dashboard, lines 150-151
EnsureTableStep ==
    /\ pc = "connect"
    /\ LET r == ensure_table(db, csv, TRUE) IN
          /\ db' = r.db
          /\ IF r.raised THEN Fail
                          ELSE /\ pc' = "pivot"
                               /\ UNCHANGED exitCode
    /\ UNCHANGED <<csv, html, team, pivot_df, fig1, df_yr, prev, fvars, qvars>>

TickVals == <<0, 1, 2, 3, 4, 5, 6>>
TickText == <<"Sun", "Mon", "Tue", "Wed", "Thu", "Fri", "Sat">>

\* px.imshow of the frame indexed by week, lines 204-220: one heat-map row
\* per row of the frame, at the y position of its week, and the columns
\* left in the frame; then the seven tick labels are attached to the y
\* positions 0..6.
imshow(df) ==
    [x |-> <<"year", "running_avg_att">>,
     y |-> [i \in 1..Len(df) |-> df[i].week],
     z |-> [i \in 1..Len(df) |-> <<df[i].year, df[i].running_avg_att>>],
     tickvals |-> TickVals,
     ticktext |-> TickText]

\* build_dashboard, lines 168-220: the CSV is read again, not the table
PivotStep ==
    /\ pc = "pivot"
    /\ \E df \in pivot(csv.rows) :
          /\ pivot_df' = df
          /\ fig1' = imshow(df)
    /\ pc' = "annual"
    /\ UNCHANGED <<csv, db, html, team, df_yr, exitCode, prev, fvars, qvars>>

\* build_dashboard, lines 222-231
AnnualStep ==
    /\ pc = "annual"
    /\ \E out \in annual(db.table, team) :
          df_yr' = out.rows
    /\ pc' = "render"
    /\ UNCHANGED <<csv, db, html, team, pivot_df, fig1, exitCode, prev, fvars, qvars>>

\* px.line, lines 223-230
line(df) == [x |-> [i \in 1..Len(df) |-> df[i].year],
             y |-> [i \in 1..Len(df) |-> df[i].total_att_k],
             markers |-> TRUE]

\* HTML_TEMPLATE, lines 110-124, rendered with team, fig1, fig2
HTML_TEMPLATE(t, f1, f2) ==
    [exists |-> TRUE,
     title  |-> "NFL Attendance Dashboard",
     h1     |-> t,
     charts |-> <<[div |-> "fig1", points |-> Len(f1.y)],
                  [div |-> "fig2", points |-> Len(f2.x)]>>]

\* build_dashboard, lines 233-243
RenderStep ==
    /\ pc = "render"
    /\ html' = HTML_TEMPLATE(team, fig1, line(df_yr))
    /\ pc' = "done"
    /\ exitCode' = 0
    /\ UNCHANGED <<csv, db, team, pivot_df, fig1, df_yr, prev, fvars, qvars>>

BuildNext ==
    \/ \E t \in TeamArgs : BuildStart(t)
    \/ InitDbStep
    \/ EnsureTableStep
    \/ PivotStep
    \/ AnnualStep
    \/ RenderStep

(***************************************************************************)
(* Direct calls of the query functions on a loaded table                   *)
(***************************************************************************)
NoCall == [op |-> "none", team |-> "", error |-> FALSE, rows |-> <<>>]

QueryInit ==
    /\ table \in [schema : Schemas, rows : RowBags(0, MaxRows)]
    /\ qres = NoCall

Call(op, t, out) ==
    /\ qres' = [op |-> op, team |-> t, error |-> out.error, rows |-> out.rows]
    /\ UNCHANGED <<table, fvars, bvars>>

\* one call per behaviour: df = rolling(con, t), weekday(con, t), annual(con, t)
CallRolling ==
    /\ qres.op = "none"
    /\ \E t \in TeamArgs : \E out \in rolling(table, t) : Call("rolling", t, out)

CallWeekday ==
    /\ qres.op = "none"
    /\ \E t \in TeamArgs : \E out \in weekday(table, t) : Call("weekday", t, out)

CallAnnual ==
    /\ qres.op = "none"
    /\ \E t \in TeamArgs : \E out \in annual(table, t) : Call("annual", t, out)

QueryNext == CallRolling \/ CallWeekday \/ CallAnnual


(***************************************************************************)
(* Specifications: each program on its own, the others at rest             *)
(***************************************************************************)
FetchIdle ==
    /\ override = 0
    /\ remote = [att |-> 200, sched |-> 200]
    /\ fpc = "exited"
    /\ dates = <<>>
    /\ probed = <<>>
    /\ chosen = 0
    /\ files = {}
    /\ fexit = -1

BuildIdle ==
    /\ csv = NoCsv
    /\ db = NoDb
    /\ html = NoHtml
    /\ pc = "off"
    /\ team = ""
    /\ pivot_df = <<>>
    /\ fig1 = NoFig1
    /\ df_yr = <<>>
    /\ exitCode = -1
    /\ prev = NoRun

QueryIdle ==
    /\ table = NoTable
    /\ qres = NoCall

Init      == BuildInit /\ FetchIdle /\ QueryIdle
Next      == BuildNext
Spec      == Init /\ [][Next]_vars

InitFetch == FetchInit /\ BuildIdle /\ QueryIdle
SpecFetch == InitFetch /\ [][FetchNext]_vars

InitQuery == QueryInit /\ FetchIdle /\ BuildIdle
SpecQuery == InitQuery /\ [][QueryNext]_vars

(***************************************************************************)
(* Properties                                                              *)
(***************************************************************************)
RECURSIVE SumOver(_, _)
SumOver(I, rows) == IF I = {} THEN 0
                    ELSE LET i == CHOOSE i \in I : TRUE
                         IN rows[i].weekly_attendance + SumOver(I \ {i}, rows)

TeamIdx(t) == {i \in 1..Len(table.rows) : table.rows[i].team_name = t}

\* the mean of the attendance of positions lo..hi of the team's rows taken
\* in the order ord
WindowMean(ord, lo, hi) ==
    LET I == {i \in lo..hi : table.rows[ord[i]].weekly_attendance # NULL}
    IN IF I = {} THEN NullD
       ELSE [num |-> SumOver({ord[i] : i \in I}, table.rows), den |-> Cardinality(I)]

\* the orders of the team's rows (as indices into the table) by period
PeriodOrders(t) ==
    {ord \in [1..Cardinality(TeamIdx(t)) -> TeamIdx(t)] :
        /\ \A i, j \in DOMAIN ord : i # j => ord[i] # ord[j]
        /\ \A i, j \in DOMAIN ord :
              i < j => game_date(table.rows[ord[i]]) <= game_date(table.rows[ord[j]])}

\* C1: for a team with N >= 1 rows, rolling returns N rows in ascending
\* period order, row k holding the mean of the attendance of rows
\* max(1,k-2)..k of the team's rows ordered by period.
C1_RollingWindow ==
    (qres.op = "rolling" /\ TeamIdx(qres.team) # {}) =>
        /\ ~qres.error
        /\ Len(qres.rows) = Cardinality(TeamIdx(qres.team))
        /\ \E ord \in PeriodOrders(qres.team) :
              \A k \in 1..Len(qres.rows) :
                 /\ qres.rows[k].game_date = game_date(table.rows[ord[k]])
                 /\ RatEq(qres.rows[k].roll_att, WindowMean(ord, Max(1, k - 2), k))

\* C2: for a team that matches no row, each of rolling, weekday and annual
\* returns an empty result and raises no error.
C2_NoMatchingRows ==
    (qres.op # "none" /\ TeamIdx(qres.team) = {}) =>
        (~qres.error /\ qres.rows = <<>>)

Seasons(t) == {table.rows[i].year : i \in TeamIdx(t)}
SeasonIdx(t, y) == {i \in TeamIdx(t) : /\ table.rows[i].year = y
                                       /\ table.rows[i].weekly_attendance # NULL}
OnePerSeason(t, rows) ==
    /\ Len(rows) = Cardinality(Seasons(t))
    /\ \A k \in 1..Len(rows) : rows[k].year \in Seasons(t)
    /\ \A k, l \in 1..Len(rows) : k < l => rows[k].year < rows[l].year

\* C3 as stated: annual returns one row per season of the team, ascending,
\* each value equal to the sum of the attendance of the season's rows.
C3_AnnualIsSum ==
    qres.op = "annual" =>
        /\ ~qres.error
        /\ OnePerSeason(qres.team, qres.rows)
        /\ \A k \in 1..Len(qres.rows) :
              LET I == SeasonIdx(qres.team, qres.rows[k].year)
              IN I # {} => RatEq(qres.rows[k].total_att_k,
                                 [num |-> SumOver(I, table.rows), den |-> 1])

\* C3 amended: annual returns one row per season of the team, ascending,
\* each value equal to the sum of the season's non-NULL weekly_attendance
\* divided by 1000, and NULL when the season has no non-NULL value.
C3_AnnualIsSumInThousands ==
    qres.op = "annual" =>
        /\ ~qres.error
        /\ OnePerSeason(qres.team, qres.rows)
        /\ \A k \in 1..Len(qres.rows) :
              LET I == SeasonIdx(qres.team, qres.rows[k].year)
              IN IF I = {} THEN qres.rows[k].total_att_k.den = 0
                 ELSE RatEq(qres.rows[k].total_att_k,
                            [num |-> SumOver(I, table.rows), den |-> 1000])

\* two seasons, one of them the sum of two games (500 + 1500)
C3_Witness ==
    /\ qres.op = "annual"
    /\ Len(qres.rows) = 2
    /\ \E k \in 1..2 : qres.rows[k].total_att_k = [num |-> 2000, den |-> 1000]
    /\ Len(table.rows) = 3

\* the labels of the heat-map's rows: the tick text at the row's y position
RowAxis(f) ==
    [i \in 1..Len(f.y) |->
        IF \E k \in 1..Len(f.tickvals) : f.tickvals[k] = f.y[i]
           THEN f.ticktext[CHOOSE k \in 1..Len(f.tickvals) : f.tickvals[k] = f.y[i]]
           ELSE ""]

\* C4: the row axis of the heat-map is exactly the seven day-of-week
\* categories Sunday..Saturday, in that order, whatever the data.
C4_SevenWeekdayRows ==
    pc \in {"annual", "render", "done"} => RowAxis(fig1) = TickText

\* C5: with the CSV present, a run ends with the attendance table loaded
\* from the CSV, and a table that is present is never replaced.
C5_AbsentToLoaded ==
    [][/\ (csv.exists /\ pc' \in {"done", "failed"}) =>
             (db'.hasTable /\ db'.table = read_csv_auto(csv))
       /\ db.hasTable => db' = db]_vars

C7_MissingCsv ==
    [][~csv.exists => /\ pc' = "failed"
                      /\ exitCode' # 0
                      /\ db' = db
                      /\ html' = html]_vars

\* a failed run that found a database file and an earlier dashboard
C7_Witness ==
    /\ ~csv.exists
    /\ pc = "failed"
    /\ exitCode = 1
    /\ html = OldHtml
    /\ db = EmptyDb

\* C8: once a dataset folder is chosen, an error status other than 404 for
\* attendance.csv ends the run with a non-zero status; for the schedule
\* file it does not: the run ends with status 0 and attendance.csv on disk.
C8_OptionalFailureTolerated ==
    (fpc = "exited" /\ chosen # 0) =>
        /\ remote.att \notin {200, 404} => fexit # 0
        /\ (remote.att = 200 /\ remote.sched \notin {200, 404}) =>
              (fexit = 0 /\ MANDATORY \in files)

\* C9: after a successful run the output file exists, embeds three charts
\* and is headed by the team of the run.
C9_ThreeCharts ==
    pc = "done" =>
        /\ html.exists
        /\ html.h1 = team
        /\ Len(html.charts) = 3

Tuesday == 1      \* datetime.date.weekday() of a Tuesday
AllTuesdays2023 == {d \in 1..DaysIn2023 : (Jan1Weekday + d - 1) % 7 = Tuesday}

\* C10: the candidates are the override alone when it is set, else all
\* Tuesdays of 2023 from the newest to the oldest; they are probed in that
\* order; no date is probed after one that answered 200, and that one is
\* chosen; a run that found no such date ends with a non-zero status and
\* nothing written.
C10_ProbeNewestFirst ==
    /\ fpc # "start" =>
          IF override # 0 THEN dates = <<override>>
          ELSE /\ {dates[i] : i \in 1..Len(dates)} = AllTuesdays2023
               /\ \A i, j \in 1..Len(dates) : i < j => dates[i] > dates[j]
    /\ Len(probed) <= Len(dates)
    /\ \A i \in 1..Len(probed) : probed[i].date = dates[i]
    /\ \A i \in 1..(Len(probed) - 1) : ~probed[i].ok /\ ~probed[i].raised
    /\ chosen # 0 => /\ probed # <<>>
                     /\ probed[Len(probed)].ok
                     /\ chosen = probed[Len(probed)].date
    /\ (probed # <<>> /\ probed[Len(probed)].ok) => chosen = probed[Len(probed)].date
    /\ chosen = 0 => files = {}
    /\ (fpc = "exited" /\ chosen = 0) => fexit # 0

\* the third-newest Tuesday is chosen after two misses
C10_Witness ==
    /\ override = 0
    /\ fpc = "download"
    /\ Len(probed) = 3
    /\ chosen = 346

====
